---- MODULE Spec2Model ----
(***************************************************************************)
(* A model of src/main.py: the truth-table generator.  One input line is   *)
(* a sequence of one-character strings; the program reads the lines in     *)
(* order and runs tokenise, parse, flatten, subexpressions and make_table  *)
(* on each, printing one table per line, until the input ends or an        *)
(* exception is raised.                                                    *)
(***************************************************************************)
EXTENDS Integers, Sequences, FiniteSets, TLC

VARIABLES input, pc, s, tokens, expr, exprs, variables, out, err

vars == <<input, pc, s, tokens, expr, exprs, variables, out, err>>

(***************************************************************************)
(* Bounds of the input domain.                                             *)
(***************************************************************************)
\* the longest line of the exhaustive family, in lexemes
MaxLexemes == 3
\* the most binary operators in a line of the chain family
MaxChain == 2
\* the most lines of a multi-line input
MaxLines == 3

(***************************************************************************)
(* Text.                                                                   *)
(***************************************************************************)
NL == "\n"

\* the letters in ascending code-point order, as Python's sorted() compares
AsciiLetters ==
    << "A","B","C","D","E","F","G","H","I","J","K","L","M",
       "N","O","P","Q","R","S","T","U","V","W","X","Y","Z",
       "a","b","c","d","e","f","g","h","i","j","k","l","m",
       "n","o","p","q","r","s","t","u","v","w","x","y","z" >>

\* the character class [a-uw-zA-Z] of the SYMBOL pattern
SymbolChars == {AsciiLetters[i] : i \in 1..Len(AsciiLetters)} \ {"v"}

RECURSIVE Concat(_)
Concat(ss) == IF ss = <<>> THEN <<>> ELSE Head(ss) \o Concat(Tail(ss))

\* ' '.join(words)
RECURSIVE Join(_)
Join(words) ==
    IF words = <<>> THEN <<>>
    ELSE IF Len(words) = 1 THEN words[1]
    ELSE words[1] \o <<" ">> \o Join(Tail(words))

(***************************************************************************)
(* tokenise: finditer over the alternation of the nine token patterns.     *)
(* At each position the alternatives are tried in the order of the table;  *)
(* a position where none matches is passed over.  `$` matches at the end   *)
(* of the string and also just before a newline that ends the string.      *)
(***************************************************************************)
Token(name, text) == [lastgroup |-> name, group |-> text]

NoToken == Token("None", <<>>)

\* the end of the longest run of SymbolChars that starts at i
RECURSIVE SymbolEnd(_, _)
SymbolEnd(str, i) ==
    IF i + 1 <= Len(str) /\ str[i + 1] \in SymbolChars
    THEN SymbolEnd(str, i + 1)
    ELSE i

StartsWith(str, i, lit) ==
    /\ i + Len(lit) - 1 <= Len(str)
    /\ SubSeq(str, i, i + Len(lit) - 1) = lit

RECURSIVE Scan(_, _)

\* Scan with a token table that also lists `~`, `|` and `&`
Scan_both_spellings(str, i) ==
    IF i > Len(str) THEN <<Token("EOF", <<>>)>>
    ELSE IF str[i] \in {"!", "~"} THEN <<Token("NOT", <<str[i]>>)>> \o Scan(str, i + 1)
    ELSE IF str[i] \in {"v", "|"} THEN <<Token("OR", <<str[i]>>)>> \o Scan(str, i + 1)
    ELSE IF str[i] \in {"^", "&"} THEN <<Token("AND", <<str[i]>>)>> \o Scan(str, i + 1)
    ELSE IF StartsWith(str, i, <<"-", ">">>)
        THEN <<Token("IMPLIES", <<"-", ">">>)>> \o Scan(str, i + 2)
    ELSE IF StartsWith(str, i, <<"<", "-", ">">>)
        THEN <<Token("EQUIV", <<"<", "-", ">">>)>> \o Scan(str, i + 3)
    ELSE IF str[i] = "(" THEN <<Token("LPAREN", <<"(">>)>> \o Scan(str, i + 1)
    ELSE IF str[i] = ")" THEN <<Token("RPAREN", <<")">>)>> \o Scan(str, i + 1)
    ELSE IF str[i] \in SymbolChars
        THEN <<Token("SYMBOL", SubSeq(str, i, SymbolEnd(str, i)))>>
             \o Scan(str, SymbolEnd(str, i) + 1)
    ELSE IF i = Len(str) /\ str[i] = NL
        THEN <<Token("EOF", <<>>)>> \o Scan(str, i + 1)
    ELSE Scan(str, i + 1)

\* the matches found from position i on, in order of occurrence
Scan(str, i) ==
    IF i > Len(str) THEN <<Token("EOF", <<>>)>>
    ELSE IF str[i] = "!" THEN <<Token("NOT", <<"!">>)>> \o Scan(str, i + 1)
    ELSE IF str[i] = "v" THEN <<Token("OR", <<"v">>)>> \o Scan(str, i + 1)
    ELSE IF str[i] = "^" THEN <<Token("AND", <<"^">>)>> \o Scan(str, i + 1)
    ELSE IF StartsWith(str, i, <<"-", ">">>)
        THEN <<Token("IMPLIES", <<"-", ">">>)>> \o Scan(str, i + 2)
    ELSE IF StartsWith(str, i, <<"<", "-", ">">>)
        THEN <<Token("EQUIV", <<"<", "-", ">">>)>> \o Scan(str, i + 3)
    ELSE IF str[i] = "(" THEN <<Token("LPAREN", <<"(">>)>> \o Scan(str, i + 1)
    ELSE IF str[i] = ")" THEN <<Token("RPAREN", <<")">>)>> \o Scan(str, i + 1)
    ELSE IF str[i] \in SymbolChars
        THEN <<Token("SYMBOL", SubSeq(str, i, SymbolEnd(str, i)))>>
             \o Scan(str, SymbolEnd(str, i) + 1)
    ELSE IF i = Len(str) /\ str[i] = NL
        THEN <<Token("EOF", <<>>)>> \o Scan(str, i + 1)
    ELSE Scan(str, i + 1)

Reversed(seq) == [i \in 1..Len(seq) |-> seq[Len(seq) + 1 - i]]

tokenise(str) == Reversed(Scan(str, 1))

\* the kinds of a token list in reading order
Kinds(toks) == [i \in 1..Len(toks) |-> toks[Len(toks) + 1 - i].lastgroup]

(***************************************************************************)
(* Expr: head, value (the name of a SYMBOL, empty for None) and children.  *)
(***************************************************************************)
Expr(head, value, children) ==
    [head |-> head, value |-> value, children |-> children]

\* the value of a variable that holds no expression yet
NoExpr == Expr("None", <<>>, <<>>)

(***************************************************************************)
(* The parser.  A token list is kept reversed and consumed from its tail.  *)
(* A parse function yields the expression and the tokens left, or the      *)
(* exception raised.                                                       *)
(***************************************************************************)
Last(toks) == toks[Len(toks)]

Pop(toks) == SubSeq(toks, 1, Len(toks) - 1)

try_match(toks, token) ==
    IF Last(toks).lastgroup = token
    THEN [res |-> Last(toks), tokens |-> Pop(toks)]
    ELSE [res |-> NoToken, tokens |-> toks]

Returned(e, toks) == [raised |-> FALSE, expr |-> e, tokens |-> toks, msg |-> ""]

Raised(m, toks) == [raised |-> TRUE, expr |-> NoExpr, tokens |-> toks, msg |-> m]

match(toks, token) ==
    LET r == try_match(toks, token)
    IN  IF r.res # NoToken
        THEN Returned(NoExpr, r.tokens)
        ELSE Raised("Expected " \o token, r.tokens)

\* The result of a call is handed to the operator that models the rest of
\* the caller: an exception passes through it.
RECURSIVE parse_1(_), parse_1_loop(_, _), parse_2(_), parse_2_loop(_, _)
RECURSIVE parse_3(_), parse_3_loop(_, _), parse_4(_), parse_4_loop(_, _)
RECURSIVE parse_5(_)

\* the body of a while loop once its right operand r is parsed:
\* left = Expr(head, children = [left, r]), and the loop goes on
parse_1_body(left, r) ==
    IF r.raised THEN r
    ELSE parse_1_loop(Expr("IMPLIES", <<>>, <<left, r.expr>>), r.tokens)

parse_2_body(left, r) ==
    IF r.raised THEN r
    ELSE parse_2_loop(Expr("EQUIV", <<>>, <<left, r.expr>>), r.tokens)

parse_3_body(left, r) ==
    IF r.raised THEN r
    ELSE parse_3_loop(Expr("OR", <<>>, <<left, r.expr>>), r.tokens)

parse_4_body(left, r) ==
    IF r.raised THEN r
    ELSE parse_4_loop(Expr("AND", <<>>, <<left, r.expr>>), r.tokens)

\* the entry of a while loop once the first operand l is parsed
parse_1_enter(l) == IF l.raised THEN l ELSE parse_1_loop(l.expr, l.tokens)

parse_2_enter(l) == IF l.raised THEN l ELSE parse_2_loop(l.expr, l.tokens)

parse_3_enter(l) == IF l.raised THEN l ELSE parse_3_loop(l.expr, l.tokens)

parse_4_enter(l) == IF l.raised THEN l ELSE parse_4_loop(l.expr, l.tokens)

\* the implication built at once from left and the whole rest of the chain
parse_1_nest(left, r) ==
    IF r.raised THEN r
    ELSE Returned(Expr("IMPLIES", <<>>, <<left, r.expr>>), r.tokens)

\* parse_1's loop taking the whole rest of the chain as the right operand
parse_1_loop_right_nested(left, toks) ==
    IF try_match(toks, "IMPLIES").res = NoToken THEN Returned(left, toks)
    ELSE parse_1_nest(left, parse_1(try_match(toks, "IMPLIES").tokens))

\* the while loop of parse_1, entered with `left` bound
parse_1_loop(left, toks) ==
    IF try_match(toks, "IMPLIES").res = NoToken THEN Returned(left, toks)
    ELSE parse_1_body(left, parse_2(try_match(toks, "IMPLIES").tokens))

parse_1(toks) == parse_1_enter(parse_2(toks))

parse_2_loop(left, toks) ==
    IF try_match(toks, "EQUIV").res = NoToken THEN Returned(left, toks)
    ELSE parse_2_body(left, parse_3(try_match(toks, "EQUIV").tokens))

parse_2(toks) == parse_2_enter(parse_3(toks))

parse_3_loop(left, toks) ==
    IF try_match(toks, "OR").res = NoToken THEN Returned(left, toks)
    ELSE parse_3_body(left, parse_3(try_match(toks, "OR").tokens))

parse_3(toks) == parse_3_enter(parse_4(toks))

\* parse_4's loop with the right operand of AND parsed at the AND level
parse_4_loop_and_level(left, toks) ==
    IF try_match(toks, "AND").res = NoToken THEN Returned(left, toks)
    ELSE parse_4_body(left, parse_4(try_match(toks, "AND").tokens))

parse_4_loop(left, toks) ==
    IF try_match(toks, "AND").res = NoToken THEN Returned(left, toks)
    ELSE parse_4_body(left, parse_3(try_match(toks, "AND").tokens))

parse_4(toks) == parse_4_enter(parse_5(toks))

\* return Expr(Head.NOT, children = [r])
parse_5_not(r) ==
    IF r.raised THEN r ELSE Returned(Expr("NOT", <<>>, <<r.expr>>), r.tokens)

\* match(tokens, 'RPAREN'); return Expr(Head.PAREN, children = [expr])
parse_5_close(e, c) ==
    IF c.raised THEN c ELSE Returned(Expr("PAREN", <<>>, <<e>>), c.tokens)

parse_5_paren(r) ==
    IF r.raised THEN r ELSE parse_5_close(r.expr, match(r.tokens, "RPAREN"))

parse_5(toks) ==
    IF try_match(toks, "NOT").res # NoToken
    THEN parse_5_not(parse_5(try_match(toks, "NOT").tokens))
    ELSE IF try_match(toks, "SYMBOL").res # NoToken
    THEN Returned(Expr("SYMBOL", try_match(toks, "SYMBOL").res.group, <<>>),
                  try_match(toks, "SYMBOL").tokens)
    ELSE IF try_match(toks, "LPAREN").res # NoToken
    THEN parse_5_paren(parse_1(try_match(toks, "LPAREN").tokens))
    ELSE Raised("Unexpected token '" \o Last(toks).lastgroup \o "'", toks)

\* parse without the final match of EOF
parse_no_eof(toks) == parse_1(toks)

\* match(tokens, 'EOF'); return expr
parse_eof(e, c) == IF c.raised THEN c ELSE Returned(e, c.tokens)

parse_end(r) == IF r.raised THEN r ELSE parse_eof(r.expr, match(r.tokens, "EOF"))

parse(toks) == parse_end(parse_1(toks))

(***************************************************************************)
(* pretty: the words go() yields, joined by single spaces.                 *)
(***************************************************************************)
Neg == <<"\\", "n", "e", "g">>
Lor == <<"\\", "l", "o", "r">>
Land == <<"\\", "l", "a", "n", "d">>
Rightarrow == <<"\\", "r", "i", "g", "h", "t", "a", "r", "r", "o", "w">>
Leftrightarrow ==
    <<"\\", "l", "e", "f", "t", "r", "i", "g", "h", "t", "a", "r", "r", "o", "w">>

RECURSIVE pretty_go(_), pretty_rest(_, _, _)

\* the for loop over expr.children[1:]: the connective, then the child
pretty_rest(children, i, word) ==
    IF i > Len(children) THEN <<>>
    ELSE <<word>> \o pretty_go(children[i]) \o pretty_rest(children, i + 1, word)

\* go() yielding nothing for the parentheses of a PAREN
pretty_go_no_parens(e) ==
    IF e.head = "SYMBOL" THEN <<e.value>>
    ELSE IF e.head = "NOT" THEN <<Neg>> \o pretty_go(e.children[1])
    ELSE IF e.head = "OR"
        THEN pretty_go(e.children[1]) \o pretty_rest(e.children, 2, Lor)
    ELSE IF e.head = "AND"
        THEN pretty_go(e.children[1]) \o pretty_rest(e.children, 2, Land)
    ELSE IF e.head = "IMPLIES"
        THEN pretty_go(e.children[1]) \o pretty_rest(e.children, 2, Rightarrow)
    ELSE IF e.head = "EQUIV"
        THEN pretty_go(e.children[1]) \o pretty_rest(e.children, 2, Leftrightarrow)
    ELSE IF e.head = "PAREN" THEN pretty_go(e.children[1])
    ELSE <<>>

pretty_go(e) ==
    IF e.head = "SYMBOL" THEN <<e.value>>
    ELSE IF e.head = "NOT" THEN <<Neg>> \o pretty_go(e.children[1])
    ELSE IF e.head = "OR"
        THEN pretty_go(e.children[1]) \o pretty_rest(e.children, 2, Lor)
    ELSE IF e.head = "AND"
        THEN pretty_go(e.children[1]) \o pretty_rest(e.children, 2, Land)
    ELSE IF e.head = "IMPLIES"
        THEN pretty_go(e.children[1]) \o pretty_rest(e.children, 2, Rightarrow)
    ELSE IF e.head = "EQUIV"
        THEN pretty_go(e.children[1]) \o pretty_rest(e.children, 2, Leftrightarrow)
    ELSE IF e.head = "PAREN"
        THEN <<<<"(">>>> \o pretty_go(e.children[1]) \o <<<<")">>>>
    ELSE <<>>

pretty(e) == Join(pretty_go(e))

(***************************************************************************)
(* flatten: go() rebuilds the child list of the node it is called on.  It  *)
(* is called on the root and, from there, only on children whose head is   *)
(* OR or AND.                                                              *)
(***************************************************************************)
flat_heads == {"OR", "AND"}

RECURSIVE flatten_go(_), flatten_children(_, _, _)

\* the loop splicing every OR or AND child, whatever the head of its parent
flatten_children_any_head(head, children, i) ==
    IF i > Len(children) THEN <<>>
    ELSE LET child == children[i]
         IN  (IF child.head \in flat_heads
              THEN flatten_go(child).children
              ELSE <<child>>)
             \o flatten_children(head, children, i + 1)

\* the for loop over expr.children, from child i on
flatten_children(head, children, i) ==
    IF i > Len(children) THEN <<>>
    ELSE LET child == children[i]
         IN  (IF child.head \in flat_heads
              THEN LET flat == flatten_go(child)
                   IN  IF flat.head = head THEN flat.children ELSE <<flat>>
              ELSE <<child>>)
             \o flatten_children(head, children, i + 1)

flatten_go(e) == Expr(e.head, e.value, flatten_children(e.head, e.children, 1))

flatten(e) == flatten_go(e)

(***************************************************************************)
(* expr_vars: the names of the symbols, as a sorted list without repeats.  *)
(***************************************************************************)
RECURSIVE SymbolNames(_)
SymbolNames(e) ==
    IF e.head = "SYMBOL" THEN {e.value}
    ELSE UNION {SymbolNames(e.children[i]) : i \in 1..Len(e.children)}

Ord(c) == CHOOSE i \in 1..Len(AsciiLetters) : AsciiLetters[i] = c

\* a < b for Python strings of letters
RECURSIVE StrLess(_, _)
StrLess(a, b) ==
    IF b = <<>> THEN FALSE
    ELSE IF a = <<>> THEN TRUE
    ELSE IF Ord(a[1]) # Ord(b[1]) THEN Ord(a[1]) < Ord(b[1])
    ELSE StrLess(Tail(a), Tail(b))

RECURSIVE Sorted(_)
Sorted(names) ==
    IF names = {} THEN <<>>
    ELSE LET least == CHOOSE a \in names : \A b \in names \ {a} : StrLess(a, b)
         IN  <<least>> \o Sorted(names \ {least})

expr_vars(e) == Sorted(SymbolNames(e))

(***************************************************************************)
(* eval_expr under an environment, a function from names to 0 and 1.       *)
(* eval_raises tells whether the evaluation raises before it returns; any  *)
(* and all stop at the first child that decides them.                      *)
(***************************************************************************)
RECURSIVE eval_expr(_, _)
eval_expr(e, env) ==
    IF e.head = "SYMBOL" THEN env[e.value] = 1
    ELSE IF e.head = "NOT" THEN ~eval_expr(e.children[1], env)
    ELSE IF e.head = "OR"
        THEN \E i \in 1..Len(e.children) : eval_expr(e.children[i], env)
    ELSE IF e.head = "AND"
        THEN \A i \in 1..Len(e.children) : eval_expr(e.children[i], env)
    ELSE IF e.head = "IMPLIES"
        THEN ~eval_expr(e.children[1], env) \/ eval_expr(e.children[2], env)
    ELSE IF e.head = "EQUIV"
        THEN eval_expr(e.children[1], env) = eval_expr(e.children[2], env)
    ELSE eval_expr(e.children[1], env)

RECURSIVE eval_raises(_, _)
eval_raises(e, env) ==
    IF e.head = "SYMBOL" THEN e.value \notin DOMAIN env
    ELSE IF e.head = "OR"
        THEN \E i \in 1..Len(e.children) :
                /\ eval_raises(e.children[i], env)
                /\ \A j \in 1..(i - 1) :
                      ~eval_raises(e.children[j], env) /\ ~eval_expr(e.children[j], env)
    ELSE IF e.head = "AND"
        THEN \E i \in 1..Len(e.children) :
                /\ eval_raises(e.children[i], env)
                /\ \A j \in 1..(i - 1) :
                      ~eval_raises(e.children[j], env) /\ eval_expr(e.children[j], env)
    ELSE IF e.head = "IMPLIES"
        THEN \/ Len(e.children) # 2
             \/ eval_raises(e.children[1], env)
             \/ eval_expr(e.children[1], env) /\ eval_raises(e.children[2], env)
    ELSE IF e.head = "EQUIV"
        THEN \/ Len(e.children) # 2
             \/ eval_raises(e.children[1], env)
             \/ eval_raises(e.children[2], env)
    ELSE eval_raises(e.children[1], env)

(***************************************************************************)
(* subexpressions: the symbols of expr_vars, then the nodes of the tree in *)
(* post-order that are neither PAREN nor SYMBOL, a node being kept only if *)
(* no node kept before it has the same pretty text.                        *)
(***************************************************************************)
RECURSIVE subexpressions_go(_), subexpressions_children(_, _)

subexpressions_children(children, i) ==
    IF i > Len(children) THEN <<>>
    ELSE subexpressions_go(children[i]) \o subexpressions_children(children, i + 1)

\* go() yielding a node before its children
subexpressions_go_parent_first(e) ==
    (IF e.head # "PAREN" /\ e.head # "SYMBOL" THEN <<e>> ELSE <<>>)
    \o subexpressions_children(e.children, 1)

subexpressions_go(e) ==
    subexpressions_children(e.children, 1)
    \o (IF e.head # "PAREN" /\ e.head # "SYMBOL" THEN <<e>> ELSE <<>>)

\* the for loop over go(expr), from node i on, with the texts seen so far
RECURSIVE subexpressions_loop(_, _, _)
subexpressions_loop(nodes, i, pretties) ==
    IF i > Len(nodes) THEN <<>>
    ELSE IF pretty(nodes[i]) \notin pretties
        THEN <<nodes[i]>>
             \o subexpressions_loop(nodes, i + 1, pretties \union {pretty(nodes[i])})
        ELSE subexpressions_loop(nodes, i + 1, pretties)

subexpressions(e) ==
    [i \in 1..Len(expr_vars(e)) |-> Expr("SYMBOL", expr_vars(e)[i], <<>>)]
    \o subexpressions_loop(subexpressions_go(e), 1, {})

(***************************************************************************)
(* make_table: the environments, then one row of 0/1 cells for each, under *)
(* a header of pretty texts.                                               *)
(***************************************************************************)
\* one pass of the loop over reversed(variables): every environment so far
\* gets v = 1 and a copy of it with v = 0 is appended
make_envs_step(envs, v) ==
    [i \in 1..(2 * Len(envs)) |->
        IF i <= Len(envs) THEN (v :> 1) @@ envs[i]
        ELSE (v :> 0) @@ envs[i - Len(envs)]]

RECURSIVE make_envs(_, _)

\* the passes in the order of variables, not of reversed(variables)
make_envs_not_reversed(vs, k) ==
    IF k = Len(vs) + 1 THEN << <<>> >>
    ELSE make_envs_step(make_envs(vs, k + 1), vs[Len(vs) + 1 - k])

\* the passes for variables[k], variables[k-1], ..., variables[1]
make_envs(vs, k) ==
    IF k = Len(vs) + 1 THEN << <<>> >>
    ELSE make_envs_step(make_envs(vs, k + 1), vs[k])

Cell(b) == IF b THEN 1 ELSE 0

make_table(es, vs) ==
    LET envs == make_envs(vs, 1)
    IN  [cols |-> Len(es),
         header |-> [j \in 1..Len(es) |-> pretty(es[j])],
         rows |-> [r \in 1..Len(envs) |->
                      [j \in 1..Len(es) |-> Cell(eval_expr(es[j], envs[r]))]]]

make_table_raises(es, vs) ==
    \E r \in 1..Len(make_envs(vs, 1)) : \E j \in 1..Len(es) :
        eval_raises(es[j], make_envs(vs, 1)[r])

(***************************************************************************)
(* The input domain.  A line is a concatenation of lexemes, ended by a     *)
(* newline; the last line of a file may lack the newline.                  *)
(***************************************************************************)
SeqsUpTo(S, n) == UNION {[1..k -> S] : k \in 0..n}

ShortLexemes ==
    { <<"p">>, <<"q">>, <<"!">>, <<"~">>, <<"v">>, <<"|">>, <<"^">>, <<"&">>,
      <<"-", ">">>, <<"<", "-", ">">>, <<"(">>, <<")">>, <<" ">> }

\* every line of at most MaxLexemes lexemes
ShortLines == {Concat(ls) \o <<NL>> : ls \in SeqsUpTo(ShortLexemes, MaxLexemes)}

\* shorter lines without the final newline
UnterminatedLines == {Concat(ls) : ls \in SeqsUpTo(ShortLexemes, MaxLexemes - 1)}

ChainAtoms == { <<"p">>, <<"q">> }

BinOps == { <<"v">>, <<"^">>, <<"-", ">">>, <<"<", "-", ">">> }

\* a[1] o[1] a[2] ... o[k] a[k+1]
Chain(a, o) ==
    Concat([i \in 1..(2 * Len(o) + 1) |->
               IF i % 2 = 1 THEN a[(i + 1) \div 2] ELSE o[i \div 2]])

Chains ==
    UNION {{Chain(a, o) : a \in [1..(k + 1) -> ChainAtoms], o \in [1..k -> BinOps]}
           : k \in 0..MaxChain}

Hole == <<"_">>

\* the places a chain is put in: bare, negated, grouped, below implications,
\* beside a conjunction or disjunction, and twice in one formula (bare and
\* grouped, or negated with and without the grouping)
Contexts ==
    { <<Hole>>,
      <<<<"!">>, Hole>>,
      <<<<"!">>, <<"(">>, Hole, <<")">>>>,
      <<<<"r">>, <<"-", ">">>, <<"(">>, Hole, <<")">>>>,
      <<Hole, <<"-", ">">>, <<"r">>, <<"-", ">">>, <<"q">>>>,
      <<<<"(">>, Hole, <<")">>, <<"^">>, <<"r">>>>,
      <<Hole, <<"v">>, <<"r">>, <<"v">>, <<"q">>>>,
      <<Hole, <<"<", "-", ">">>, <<"(">>, Hole, <<")">>>>,
      <<<<"!">>, <<"(">>, Hole, <<")">>, <<"<", "-", ">">>, <<"!">>, Hole>> }

Fill(ctx, body) ==
    Concat([i \in 1..Len(ctx) |-> IF ctx[i] = Hole THEN body ELSE ctx[i]])

ChainLines == {Fill(ctx, body) \o <<NL>> : ctx \in Contexts, body \in Chains}

Lines == ShortLines \union UnterminatedLines \union ChainLines

\* the lines of a multi-line input: three well-formed, three malformed
RunLines ==
    { <<"p", NL>>,
      <<"p", "-", ">", "q", NL>>,
      <<"!", "(", "p", "v", "q", ")", NL>>,
      <<"p", "-", ">", NL>>,
      <<"(", "p", NL>>,
      <<NL>> }

(***************************************************************************)
(* The program: the loop over fileinput.input().  pc is the statement to   *)
(* run next; lineno counts the lines read.                                 *)
(***************************************************************************)
lineno == Len(input.read)

TypeOK ==
    /\ pc \in {"for", "tokenise", "parse", "flatten", "columns", "print", "exit", "raised"}
    /\ lineno <= MaxLines
    /\ Len(out) <= lineno

InitVars ==
    /\ pc = "for"
    /\ s = <<>>
    /\ tokens = <<>>
    /\ expr = NoExpr
    /\ exprs = <<>>
    /\ variables = <<>>
    /\ out = <<>>
    /\ err = ""

\* one line on standard input
Init ==
    /\ input \in {[read |-> <<>>, rest |-> <<l>>] : l \in Lines}
    /\ InitVars

\* several lines on standard input
InitRun ==
    /\ input \in {[read |-> <<>>, rest |-> ls] : ls \in SeqsUpTo(RunLines, MaxLines)}
    /\ InitVars

\* for s in fileinput.input(): the next line, or the end of the loop
ForLine ==
    /\ pc = "for"
    /\ IF input.rest = <<>>
       THEN /\ pc' = "exit"
            /\ UNCHANGED <<input, s>>
       ELSE /\ s' = Head(input.rest)
            /\ input' = [read |-> Append(input.read, Head(input.rest)),
                         rest |-> Tail(input.rest)]
            /\ pc' = "tokenise"
    /\ UNCHANGED <<tokens, expr, exprs, variables, out, err>>

\* tokens = tokenise(s)
Tokenise ==
    /\ pc = "tokenise"
    /\ tokens' = tokenise(s)
    /\ pc' = "parse"
    /\ UNCHANGED <<input, s, expr, exprs, variables, out, err>>

\* the loop going on to the next line when parse raises
Parse_and_continue ==
    /\ pc = "parse"
    /\ LET r == parse(tokens)
       IN  /\ tokens' = r.tokens
           /\ IF r.raised
              THEN /\ err' = r.msg
                   /\ pc' = "for"
                   /\ UNCHANGED expr
              ELSE /\ expr' = r.expr
                   /\ pc' = "flatten"
                   /\ UNCHANGED err
    /\ UNCHANGED <<input, s, exprs, variables, out>>

\* expr = parse(tokens); an exception ends the program
Parse ==
    /\ pc = "parse"
    /\ LET r == parse(tokens)
       IN  /\ tokens' = r.tokens
           /\ IF r.raised
              THEN /\ err' = r.msg
                   /\ pc' = "raised"
                   /\ UNCHANGED expr
              ELSE /\ expr' = r.expr
                   /\ pc' = "flatten"
                   /\ UNCHANGED err
    /\ UNCHANGED <<input, s, exprs, variables, out>>

\* flatten(expr), in place
Flatten ==
    /\ pc = "flatten"
    /\ expr' = flatten(expr)
    /\ pc' = "columns"
    /\ UNCHANGED <<input, s, tokens, exprs, variables, out, err>>

\* the arguments of make_table: subexpressions(expr), expr_vars(expr)
Columns ==
    /\ pc = "columns"
    /\ exprs' = subexpressions(expr)
    /\ variables' = expr_vars(expr)
    /\ pc' = "print"
    /\ UNCHANGED <<input, s, tokens, expr, out, err>>

\* print(make_table(...))
PrintTable ==
    /\ pc = "print"
    /\ IF make_table_raises(exprs, variables)
       THEN /\ err' = "does not associate"
            /\ pc' = "raised"
            /\ UNCHANGED out
       ELSE /\ out' = Append(out, make_table(exprs, variables))
            /\ pc' = "for"
            /\ UNCHANGED err
    /\ UNCHANGED <<input, s, tokens, expr, exprs, variables>>

Next ==
    \/ ForLine
    \/ Tokenise
    \/ Parse
    \/ Flatten
    \/ Columns
    \/ PrintTable

Spec == Init /\ [][Next]_vars

SpecRun == InitRun /\ [][Next]_vars

(***************************************************************************)
(* Vocabulary of the properties.                                           *)
(***************************************************************************)
\* every node of a tree, the root included
RECURSIVE Nodes(_)
Nodes(e) == {e} \union UNION {Nodes(e.children[i]) : i \in 1..Len(e.children)}

StrictDescendants(e) == UNION {Nodes(e.children[i]) : i \in 1..Len(e.children)}

\* the columns that follow the variable columns
Collected == SubSeq(exprs, Len(variables) + 1, Len(exprs))

\* every assignment of 0 and 1 to the names
AllEnvs(names) == [names -> {0, 1}]

\* the kinds of the tokens of the current line, in reading order
LineKinds == Kinds(tokenise(s))

\* the i-th token of the current line as a SYMBOL node
Sym(i) == Expr("SYMBOL", Scan(s, 1)[i].group, <<>>)

Binary(head, l, r) == Expr(head, <<>>, <<l, r>>)

\* the column of a variable
VarIndex(name) == CHOOSE i \in 1..Len(variables) : variables[i] = name

LastTable == out[Len(out)]

(***************************************************************************)
(* C1.  After flatten no OR node of the tree has an OR child and no AND    *)
(* node has an AND child, wherever the node lies, also below NOT, PAREN,   *)
(* IMPLIES or EQUIV.                                                       *)
(***************************************************************************)
NoSameVariantChild(e) ==
    \A n \in Nodes(e) :
        n.head \in flat_heads =>
            \A i \in 1..Len(n.children) : n.children[i].head # n.head

C1_FlattenedEverywhere ==
    pc \in {"columns", "print"} => NoSameVariantChild(expr)

(***************************************************************************)
(* C2.  As claimed: `a -> b -> c` parses as Implies(a, Implies(b, c)).     *)
(***************************************************************************)
ImpliesChain ==
    /\ Len(LineKinds) >= 6
    /\ SubSeq(LineKinds, 1, 6) =
          <<"SYMBOL", "IMPLIES", "SYMBOL", "IMPLIES", "SYMBOL", "EOF">>

C2_ChainRightNested ==
    pc = "flatten" /\ ImpliesChain =>
        expr = Binary("IMPLIES", Sym(1), Binary("IMPLIES", Sym(3), Sym(5)))

(***************************************************************************)
(* C2, amended.  `a -> b -> c` parses left-nested, as                      *)
(* Implies(Implies(a, b), c): the collected columns are a -> b and the     *)
(* whole formula, and in every row of the table the last column is the     *)
(* value of (a -> b) -> c and the column before it the value of a -> b.    *)
(***************************************************************************)
C2_ChainLeftNested ==
    ImpliesChain =>
        LET ab == Binary("IMPLIES", Sym(1), Sym(3))
            abc == Binary("IMPLIES", ab, Sym(5))
        IN  /\ pc = "flatten" => expr = abc
            /\ pc = "print" => Collected = <<ab, abc>>
            /\ pc \in {"for", "exit"} /\ out # <<>> =>
                  \A r \in 1..Len(LastTable.rows) :
                      LET row == LastTable.rows[r]
                          a == row[VarIndex(Sym(1).value)] = 1
                          b == row[VarIndex(Sym(3).value)] = 1
                          c == row[VarIndex(Sym(5).value)] = 1
                      IN  /\ LastTable.cols = Len(variables) + 2
                          /\ row[LastTable.cols - 1] = Cell(a => b)
                          /\ row[LastTable.cols] = Cell((a => b) => c)

\* a chain over three different variables has been tabulated
C2_Witness ==
    /\ ImpliesChain
    /\ pc = "exit"
    /\ Len(out) = 1
    /\ Len(variables) = 3

(***************************************************************************)
(* C3.  As claimed: writing `~` for `!`, `|` for `v` and `&` for `^`       *)
(* leaves the kinds of the tokens of a line unchanged.                     *)
(***************************************************************************)
Respelled(str) ==
    [i \in 1..Len(str) |->
        IF str[i] = "!" THEN "~"
        ELSE IF str[i] = "v" THEN "|"
        ELSE IF str[i] = "^" THEN "&"
        ELSE str[i]]

Blanked(str) ==
    [i \in 1..Len(str) |-> IF str[i] \in {"~", "|", "&"} THEN " " ELSE str[i]]

NotConnective(kind) == kind \notin {"NOT", "OR", "AND"}

Collectable(e) == e.head \notin {"SYMBOL", "PAREN"}

C4_CollectedColumns ==
    pc = "print" =>
        /\ \A j \in 1..Len(Collected) : Collectable(Collected[j])
        /\ \A i, j \in 1..Len(Collected) :
              i < j => pretty(Collected[i]) # pretty(Collected[j])
        /\ \A j \in 1..Len(Collected) :
              \A d \in StrictDescendants(Collected[j]) :
                  Collectable(d) =>
                      \E i \in 1..(j - 1) : pretty(Collected[i]) = pretty(d)

\* a column with a collected descendant, in a tree where a repeated text
\* was dropped
C4_Witness ==
    /\ pc = "print"
    /\ Len(Collected) >= 2
    /\ Len(subexpressions_go(expr)) > Len(Collected)

(***************************************************************************)
(* C5.  The table of a formula with N variables has 2^N rows and           *)
(* N + (collected columns) columns; the rows are pairwise different and    *)
(* follow an N-bit counter with the first variable as the most significant *)
(* bit and 1 before 0: in row r, counted from 0, variable i is 1 exactly   *)
(* when bit N-i of r is 0.  For `p -> q` the rows are 1 1 1, 1 0 0, 0 1 1  *)
(* and 0 0 1.                                                              *)
(***************************************************************************)
RECURSIVE Pow2(_)
Pow2(n) == IF n = 0 THEN 1 ELSE 2 * Pow2(n - 1)

Bit(r, k) == (r \div Pow2(k)) % 2

C5_RowOrder ==
    pc \in {"for", "exit"} /\ out # <<>> =>
        LET N == Len(variables)
            rows == LastTable.rows
        IN  /\ Len(rows) = Pow2(N)
            /\ LastTable.cols = N + Len(Collected)
            /\ \A r \in 1..Len(rows) : Len(rows[r]) = LastTable.cols
            /\ \A q, r \in 1..Len(rows) :
                  q # r => SubSeq(rows[q], 1, N) # SubSeq(rows[r], 1, N)
            /\ \A r \in 0..(Len(rows) - 1) : \A i \in 1..N :
                  rows[r + 1][i] = 1 <=> Bit(r, N - i) = 0
            /\ s = <<"p", "-", ">", "q", NL>> =>
                  rows = << <<1, 1, 1>>, <<1, 0, 0>>, <<0, 1, 1>>, <<0, 0, 1>> >>

\* a table over three variables has been printed
C5_Witness ==
    /\ pc = "for"
    /\ Len(out) = 1
    /\ Len(variables) = 3
    /\ Len(LastTable.rows) = 8

(***************************************************************************)
(* C6.  parse raises, and leaves no tree, when a primary position holds a  *)
(* token other than NOT, SYMBOL or LPAREN, when the formula of an opened   *)
(* LPAREN is not followed by RPAREN, or when a token other than END        *)
(* follows a complete formula; it raises on no other token sequence.       *)
(***************************************************************************)
BinaryKinds == {"OR", "AND", "IMPLIES", "EQUIV"}

\* reading the kinds from k[i] on, `open` groups being open and `primary`
\* telling whether a primary is due: none of the three faults occurs
RECURSIVE Grammatical(_, _, _, _)
Grammatical(k, i, open, primary) ==
    IF primary
    THEN IF k[i] = "NOT" THEN Grammatical(k, i + 1, open, TRUE)
         ELSE IF k[i] = "SYMBOL" THEN Grammatical(k, i + 1, open, FALSE)
         ELSE IF k[i] = "LPAREN" THEN Grammatical(k, i + 1, open + 1, TRUE)
         ELSE FALSE
    ELSE IF k[i] \in BinaryKinds THEN Grammatical(k, i + 1, open, TRUE)
         ELSE IF open > 0
         THEN k[i] = "RPAREN" /\ Grammatical(k, i + 1, open - 1, FALSE)
         ELSE k[i] = "EOF"

C6_ParseErrors ==
    /\ pc = "raised" => ~Grammatical(LineKinds, 1, 0, TRUE) /\ expr = NoExpr /\ out = <<>>
    /\ pc = "flatten" => Grammatical(LineKinds, 1, 0, TRUE) /\ expr # NoExpr /\ err = ""

\* `p ->` has been refused at the END token
C6_Witness ==
    /\ pc = "raised"
    /\ s = <<"p", "-", ">", NL>>
    /\ err = "Unexpected token 'EOF'"

(***************************************************************************)
(* C8.  flatten keeps the truth value of the tree under every assignment   *)
(* of its variables.                                                       *)
(***************************************************************************)
C8_FlattenKeepsValues ==
    [][pc = "flatten" =>
          \A env \in AllEnvs(SymbolNames(expr)) :
              eval_expr(expr', env) = eval_expr(expr, env)]_vars

\* flatten has changed the tree
C8_Witness ==
    /\ pc = "columns"
    /\ expr # parse(tokenise(s)).expr
    /\ Len(expr.children) >= 3

(***************************************************************************)
(* C9.  The right operand of AND is parsed at the OR level: `a ^ b v c` is *)
(* And(a, Or(b, c)) and `a v b ^ c` is Or(a, And(b, c)).  In every parsed  *)
(* tree the words of the formula are those of the line, the left operand   *)
(* of an AND or OR is a NOT, a SYMBOL or a PAREN, and its right operand    *)
(* is no IMPLIES and no EQUIV: it runs on to the next `->`, `<->`,         *)
(* unmatched `)` or END.                                                   *)
(***************************************************************************)
KindsAre(ks) == Len(LineKinds) > Len(ks) /\ SubSeq(LineKinds, 1, Len(ks) + 1) = ks \o <<"EOF">>

\* the kind of token a word of pretty stands for
WordKind(w) ==
    IF w = Neg THEN "NOT"
    ELSE IF w = Lor THEN "OR"
    ELSE IF w = Land THEN "AND"
    ELSE IF w = Rightarrow THEN "IMPLIES"
    ELSE IF w = Leftrightarrow THEN "EQUIV"
    ELSE IF w = <<"(">> THEN "LPAREN"
    ELSE IF w = <<")">> THEN "RPAREN"
    ELSE "SYMBOL"

IsEOF(kind) == kind = "EOF"

C9_AndTakesOrLevel ==
    pc = "flatten" =>
        /\ KindsAre(<<"SYMBOL", "AND", "SYMBOL", "OR", "SYMBOL">>) =>
              expr = Binary("AND", Sym(1), Binary("OR", Sym(3), Sym(5)))
        /\ KindsAre(<<"SYMBOL", "OR", "SYMBOL", "AND", "SYMBOL">>) =>
              expr = Binary("OR", Sym(1), Binary("AND", Sym(3), Sym(5)))
        /\ [i \in 1..Len(pretty_go(expr)) |-> WordKind(pretty_go(expr)[i])]
              \o SelectSeq(LineKinds, IsEOF) = LineKinds
        /\ \A n \in Nodes(expr) :
              n.head \in {"AND", "OR"} =>
                  /\ Len(n.children) = 2
                  /\ n.children[1].head \in {"NOT", "SYMBOL", "PAREN"}
                  /\ n.children[2].head \notin {"IMPLIES", "EQUIV"}

\* `a ^ b v c` has been parsed
C9_Witness ==
    /\ pc = "flatten"
    /\ KindsAre(<<"SYMBOL", "AND", "SYMBOL", "OR", "SYMBOL">>)

(***************************************************************************)
(* C10.  Two nodes of a flattened tree that are neither SYMBOL nor PAREN   *)
(* and have the same pretty text have the same value under every           *)
(* assignment of the variables of the formula.                             *)
(***************************************************************************)
C10_SameTextSameValue ==
    pc = "columns" =>
        \A m, n \in {x \in Nodes(expr) : Collectable(x)} :
            pretty(m) = pretty(n) =>
                \A env \in AllEnvs(SymbolNames(expr)) :
                    eval_expr(m, env) = eval_expr(n, env)

\* two nodes of different shape have the same text
C10_Witness ==
    /\ pc = "columns"
    /\ \E m, n \in {x \in Nodes(expr) : Collectable(x)} :
          m # n /\ pretty(m) = pretty(n)

(***************************************************************************)
(* C7.  Tables are printed one per line, in the order of the lines, each   *)
(* line being finished before the next is read.  When a line fails to      *)
(* parse the program stops: the tables of the lines before it have been    *)
(* printed, and none is printed for it or for a later line.                *)
(***************************************************************************)
\* what the program prints for a line that parses
TableOf(line) ==
    LET e == flatten(parse(tokenise(line)).expr)
    IN  make_table(subexpressions(e), expr_vars(e))

Parses(line) == ~parse(tokenise(line)).raised

C7_OneTablePerLineUntilError ==
    /\ \A i \in 1..Len(out) :
          i <= lineno /\ Parses(input.read[i]) /\ out[i] = TableOf(input.read[i])
    /\ pc \in {"for", "exit"} => Len(out) = lineno
    /\ pc \in {"tokenise", "parse", "flatten", "columns", "print", "raised"} =>
          Len(out) = lineno - 1
    /\ pc = "exit" => input.rest = <<>>
    /\ pc = "raised" => ~Parses(input.read[lineno]) /\ ~ENABLED Next

\* the second line failed with a well-formed line still unread
C7_Witness ==
    /\ pc = "raised"
    /\ lineno = 2
    /\ Len(out) = 1
    /\ input.rest # <<>>
    /\ Parses(input.rest[1])

====
